---------------------------- MODULE Spec2Model ----------------------------
(***************************************************************************)
(* Model of strategies.py of lichess-bot: the example move pickers         *)
(* (Alphabetical, FirstMove), MinimalEngine.search, and the CO456Protocol  *)
(* adapter with its CO456Engine wrapper, and the FillerEngine proxy of     *)
(* MinimalEngine.                                                          *)
(*                                                                         *)
(* Text is modelled as a sequence of one-character strings, so that        *)
(* parsing, formatting and Python's string order are computed, not         *)
(* assumed.  The parts of python-chess the source calls (Move.from_uci,    *)
(* Move.uci, Protocol.communicate, BaseCommand) are modelled by what they  *)
(* do; each is mapped to the source line that calls it.                    *)
(*                                                                         *)
(* Not modelled: real time (SimpleEngine's optional timeout), the death of *)
(* the child process, and logging.                                         *)
(***************************************************************************)
EXTENDS Integers, Sequences, FiniteSets, TLC

VARIABLES
    initialized,    \* CO456Protocol.initialized (chess.engine.Protocol)
    first_move,     \* CO456Protocol.first_move: text
    cmds,           \* every command object created so far, in creation order
    command,        \* Protocol.command: index into cmds, 0 for None
    next_command,   \* Protocol.next_command: index into cmds, 0 for None
    written,        \* every line written to the child's stdin, with its writer
    pipe,           \* lines the child has written that are not yet delivered
    sent_by_child,  \* number of lines the child has written so far
    replies,        \* the lines the child has written, each with the index in
                    \* `written` of the line it answers (0: it answers none)
    caller,         \* who uses the adapter: "CO456Engine" or "direct"
    client,         \* the calling thread: its latest call
    last,           \* the last call on a MinimalEngine and its outcome
    engine_name,    \* MinimalEngine.engine_name
    engine,         \* MinimalEngine.engine: the fields of its FillerEngine
    notified        \* the invocations of MinimalEngine.notify so far, in order

vars == <<initialized, first_move, cmds, command, next_command, written, pipe,
          sent_by_child, replies, caller, client, last, engine_name, engine, notified>>

protocolVars == <<initialized, first_move, cmds, command, next_command,
                  written, pipe, sent_by_child, replies, caller, client>>

strategyVars == <<last, engine_name, engine, notified>>

-----------------------------------------------------------------------------
(* Bounds of the model.                                                    *)

\* Commands created on the adapter in one behaviour.
MaxCommands == 3

\* Lines the child writes in one behaviour.
MaxChildLines == 2

\* Legal moves of a board handed to a move picker.
MaxLegal == 3

-----------------------------------------------------------------------------
(* Text.                                                                   *)

\* The printable ASCII characters in code point order, 32 (space) first.
\* Code point 96 cannot be written as a string here and is named instead.
Ascii ==
    <<" ", "!", "\"", "#", "$", "%", "&", "'", "(", ")", "*", "+", ",", "-",
      ".", "/", "0", "1", "2", "3", "4", "5", "6", "7", "8", "9", ":", ";",
      "<", "=", ">", "?", "@", "A", "B", "C", "D", "E", "F", "G", "H", "I",
      "J", "K", "L", "M", "N", "O", "P", "Q", "R", "S", "T", "U", "V", "W",
      "X", "Y", "Z", "[", "\\", "]", "^", "_", "grave", "a", "b", "c", "d", "e",
      "f", "g", "h", "i", "j", "k", "l", "m", "n", "o", "p", "q", "r", "s",
      "t", "u", "v", "w", "x", "y", "z", "{", "|", "}", "~">>

\* ord(c)
Ord(c) == 31 + (CHOOSE i \in 1..Len(Ascii) : Ascii[i] = c)

\* str.lower() and str.upper() of one character
Lower(c) == IF Ord(c) >= 65 /\ Ord(c) <= 90 THEN Ascii[Ord(c) - 31 + 32] ELSE c

Upper(c) == IF Ord(c) >= 97 /\ Ord(c) <= 122 THEN Ascii[Ord(c) - 31 - 32] ELSE c

\* Python's a < b on str: by code point, a proper prefix is smaller.
RECURSIVE StrLess(_, _)
StrLess(a, b) ==
    IF b = <<>> THEN FALSE
    ELSE IF a = <<>> THEN TRUE
    ELSE IF Ord(Head(a)) # Ord(Head(b)) THEN Ord(Head(a)) < Ord(Head(b))
    ELSE StrLess(Tail(a), Tail(b))

StrLessEq(a, b) == a = b \/ StrLess(a, b)

\* list.index: the position (from 0) of the first element equal to x, -1 if none
IndexOf(list, x) ==
    IF \E i \in 1..Len(list) : list[i] = x
    THEN (CHOOSE i \in 1..Len(list) :
              list[i] = x /\ \A j \in 1..(i - 1) : list[j] # x) - 1
    ELSE -1

-----------------------------------------------------------------------------
(* chess.Move, as far as the source uses it.                               *)

FILE_NAMES == <<"a", "b", "c", "d", "e", "f", "g", "h">>

RANK_NAMES == <<"1", "2", "3", "4", "5", "6", "7", "8">>

\* chess.PIECE_SYMBOLS without its leading None: index 1 is the pawn
PIECE_SYMBOLS == <<"p", "n", "b", "r", "q", "k">>

\* SQUARE_NAMES.index(text): 0..63, or -1 where Python raises ValueError
SquareIndex(text) ==
    IF Len(text) = 2 /\ IndexOf(FILE_NAMES, text[1]) >= 0
                     /\ IndexOf(RANK_NAMES, text[2]) >= 0
    THEN IndexOf(FILE_NAMES, text[1]) + 8 * IndexOf(RANK_NAMES, text[2])
    ELSE -1

\* SQUARE_NAMES[square]
SquareName(square) == <<FILE_NAMES[(square % 8) + 1], RANK_NAMES[(square \div 8) + 1]>>

\* chess.Move(from_square, to_square, promotion, drop); 0 stands for None
Move(f, t, p, d) == [from_square |-> f, to_square |-> t, promotion |-> p, drop |-> d]

\* The value standing for "chess.Move.from_uci raised ValueError".
BadMove == [from_square |-> -1, to_square |-> -1, promotion |-> 0, drop |-> 0]

NullMove == Move(0, 0, 0, 0)

ZERO_UCI == <<"0", "0", "0", "0">>

\* chess.Move.from_uci(uci)
from_uci(uci) ==
    IF uci = ZERO_UCI THEN NullMove
    ELSE IF Len(uci) = 4 /\ uci[2] = "@" THEN
        LET drop == IndexOf(PIECE_SYMBOLS, Lower(uci[1])) + 1
            square == SquareIndex(SubSeq(uci, 3, 4))
        IN  IF drop = 0 \/ square = -1 THEN BadMove
            ELSE Move(square, square, 0, drop)
    ELSE IF Len(uci) >= 4 /\ Len(uci) <= 5 THEN
        LET from_square == SquareIndex(SubSeq(uci, 1, 2))
            to_square == SquareIndex(SubSeq(uci, 3, 4))
            promotion == IF Len(uci) = 5 THEN IndexOf(PIECE_SYMBOLS, uci[5]) + 1 ELSE 0
        IN  IF from_square = -1 \/ to_square = -1 \/ (Len(uci) = 5 /\ promotion = 0)
            THEN BadMove
            ELSE IF from_square = to_square THEN BadMove
            ELSE Move(from_square, to_square, promotion, 0)
    ELSE BadMove

\* chess.Move.uci(), which is also str(move)
uci(move) ==
    IF move.drop # 0
    THEN <<Upper(PIECE_SYMBOLS[move.drop]), "@">> \o SquareName(move.to_square)
    ELSE IF move.promotion # 0
    THEN SquareName(move.from_square) \o SquareName(move.to_square)
             \o <<PIECE_SYMBOLS[move.promotion]>>
    ELSE IF move.from_square # 0 \/ move.to_square # 0
    THEN SquareName(move.from_square) \o SquareName(move.to_square)
    ELSE ZERO_UCI

-----------------------------------------------------------------------------
(* Boards.  A chess.Board is used by the source through three things: its  *)
(* move_stack, the iteration order of its legal_moves, and san(move).  The *)
(* rules of chess are not modelled: a board is any such triple.            *)

None == "None"

\* The moves of the model with their algebraic notation: <<uci, san>>.
Notation ==
    << << <<"e","2","e","4">>,     <<"e","4">> >>,
       << <<"g","1","f","3">>,     <<"N","f","3">> >>,
       << <<"a","2","a","3">>,     <<"a","3">> >>,
       << <<"e","1","g","1">>,     <<"O","-","O">> >>,
       << <<"e","1","c","1">>,     <<"O","-","O","-","O">> >>,
       << <<"a","7","a","8","q">>, <<"a","8","=","Q">> >> >>

Moves == {from_uci(Notation[i][1]) : i \in 1..Len(Notation)}

\* board.san(move)
san(board, move) ==
    Notation[CHOOSE i \in 1..Len(Notation) : from_uci(Notation[i][1]) = move][2]

\* Sequences over S without repetition, of length at most n.
RECURSIVE InjectiveSeqs(_, _)
InjectiveSeqs(S, n) ==
    IF n = 0 THEN {<<>>}
    ELSE LET shorter == InjectiveSeqs(S, n - 1)
         IN  shorter \cup
             {Append(q, x) : <<q, x>> \in
                 {y \in shorter \X S : Len(y[1]) = n - 1
                                       /\ \A i \in 1..Len(y[1]) : y[1][i] # y[2]}}

Board(stack, legal) == [move_stack |-> stack, legal_moves |-> legal]

\* The boards handed to the move pickers.
StrategyBoards == {Board(<<>>, legal) : legal \in InjectiveSeqs(Moves, MaxLegal)}

-----------------------------------------------------------------------------
(* The move pickers.                                                       *)

\* chess.engine.PlayResult(move, ponder, resigned=...)
PlayResult(move, ponder, resigned) ==
    [move |-> move, ponder |-> ponder, resigned |-> resigned]

Returned(value) == [how |-> "returned", value |-> value]

Raised(error) == [how |-> "raised", value |-> error]

\* list.sort(key=...): ascending by key, equal keys keep their order.  The
\* argument is the list of <<key, item>> pairs.
RECURSIVE SortByKey(_)
SortByKey(pairs) ==
    IF pairs = <<>> THEN <<>>
    ELSE LET n == Len(pairs)
             x == pairs[n]
             before == SortByKey(SubSeq(pairs, 1, n - 1))
             k == Cardinality({i \in 1..Len(before) : StrLessEq(before[i][1], x[1])})
         IN  SubSeq(before, 1, k) \o <<x>> \o SubSeq(before, k + 1, Len(before))

AlphabeticalSearchFirstListed(board) ==
    IF board.legal_moves = <<>> THEN Raised("IndexError")
    ELSE Returned(PlayResult(board.legal_moves[1], None, FALSE))

\* Alphabetical.search(board, *args)
AlphabeticalSearch(board) ==
    LET moves == board.legal_moves
        sorted == SortByKey([i \in 1..Len(moves) |-> <<san(board, moves[i]), moves[i]>>])
    IN  IF sorted = <<>> THEN Raised("IndexError")
        ELSE Returned(PlayResult(sorted[1][2], None, FALSE))

FirstMoveSearchBySan(board) == AlphabeticalSearch(board)

\* FirstMove.search(board, *args)
FirstMoveSearch(board) ==
    LET moves == board.legal_moves
        sorted == SortByKey([i \in 1..Len(moves) |-> <<uci(moves[i]), moves[i]>>])
    IN  IF sorted = <<>> THEN Raised("IndexError")
        ELSE Returned(PlayResult(sorted[1][2], None, FALSE))

MinimalEngineSearchFirstLegal(board, time_limit, ponder, draw_offered) ==
    AlphabeticalSearchFirstListed(board)

\* MinimalEngine.search(board, time_limit, ponder, draw_offered)
MinimalEngineSearch(board, time_limit, ponder, draw_offered) ==
    Raised("NotImplementedError")

\* MinimalEngine.__init__: engine_name is the class name unless a name is given
EngineNames == {"MinimalEngine", "ExampleEngine", "homemade"}

\* FillerEngine.__init__(main_engine, name=None)
FillerEngine(main_engine, name) ==
    [id |-> [name |-> name], name |-> name, main_engine |-> main_engine]

\* No MinimalEngine has been constructed yet.
NoEngine == FillerEngine(None, None)

\* The attributes normal lookup finds in the FillerEngine object itself ...
OwnAttributes == {"id", "name", "main_engine"}

\* ... and in its class.
ClassAttributes == {"__init__", "__getattr__"}

\* MinimalEngine.__init__: self.engine is a FillerEngine on self, whose id is
\* then replaced.
ConstructMinimalEngine ==
    \E name \in EngineNames :
        /\ engine_name = None
        /\ engine_name' = name
        /\ engine' = [FillerEngine("self", "self.name") EXCEPT !.id = [name |-> name]]
        /\ UNCHANGED <<last, notified, protocolVars>>

\* No method of a MinimalEngine has been called yet; each behaviour calls
\* one, once.
NoCall == [op |-> "none", args |-> <<>>, board |-> Board(<<>>, <<>>),
           outcome |-> Returned(None)]

TimeLimits == {"clock", "movetime"}

CallAlphabetical ==
    \E board \in StrategyBoards :
        /\ last = NoCall
        /\ last' = [op |-> "Alphabetical.search", args |-> <<>>, board |-> board,
                    outcome |-> AlphabeticalSearch(board)]
        /\ UNCHANGED <<engine_name, engine, notified, protocolVars>>

CallFirstMove ==
    \E board \in StrategyBoards :
        /\ last = NoCall
        /\ last' = [op |-> "FirstMove.search", args |-> <<>>, board |-> board,
                    outcome |-> FirstMoveSearch(board)]
        /\ UNCHANGED <<engine_name, engine, notified, protocolVars>>

CallMinimalEngineSearch ==
    \E board \in StrategyBoards, time_limit \in TimeLimits,
       ponder \in BOOLEAN, draw_offered \in BOOLEAN :
        /\ engine_name # None
        /\ last = NoCall
        /\ last' = [op |-> "MinimalEngine.search",
                    args |-> <<time_limit, ponder, draw_offered>>, board |-> board,
                    outcome |-> MinimalEngineSearch(board, time_limit, ponder, draw_offered)]
        /\ UNCHANGED <<engine_name, engine, notified, protocolVars>>

-----------------------------------------------------------------------------
(* The FillerEngine proxy: calls on self.engine of a MinimalEngine.        *)

\* What a call leaves behind: the fields of the FillerEngine, the invocations
\* of notify it made, and its outcome.
Did(eng, calls, outcome) == [engine |-> eng, calls |-> calls, outcome |-> outcome]

\* One invocation of notify on the object `on`.
Notify(on, method_name, args, kwargs) ==
    [on |-> on, method_name |-> method_name, args |-> args, kwargs |-> kwargs]

\* MinimalEngine.notify(method_name, *args, **kwargs): the body is `pass`
MinimalEngineNotify(eng, method_name, args, kwargs) == Did(eng, <<>>, Returned(None))

FillerEngineMethodDropsArguments(eng, method_name, args, kwargs) ==
    LET did == MinimalEngineNotify(eng, method_name, <<>>, {})
    IN  Did(did.engine, <<Notify(eng.main_engine, method_name, <<>>, {})>> \o did.calls,
            did.outcome)

\* The function FillerEngine.__getattr__(method_name) returns, called with
\* (*args, **kwargs): return main_engine.notify(method_name, *args, **kwargs)
FillerEngineMethod(eng, method_name, args, kwargs) ==
    LET did == MinimalEngineNotify(eng, method_name, args, kwargs)
    IN  Did(did.engine, <<Notify(eng.main_engine, method_name, args, kwargs)>> \o did.calls,
            did.outcome)

\* The keys of a set of keyword arguments, and the value of one
Keys(kwargs) == {kw[1] : kw \in kwargs}

ValueOf(kwargs, key) == (CHOOSE kw \in kwargs : kw[1] = key)[2]

\* self.engine.__init__(*args, **kwargs): FillerEngine.__init__ run again
FillerEngineInitCall(eng, args, kwargs) ==
    IF Len(args) = 1 /\ kwargs = {} THEN Did(FillerEngine(args[1], None), <<>>, Returned(None))
    ELSE IF Len(args) = 1 /\ Keys(kwargs) = {"name"}
    THEN Did(FillerEngine(args[1], ValueOf(kwargs, "name")), <<>>, Returned(None))
    ELSE IF Len(args) = 2 /\ kwargs = {}
    THEN Did(FillerEngine(args[1], args[2]), <<>>, Returned(None))
    ELSE Did(eng, <<>>, Raised("TypeError"))

\* self.engine.__getattr__(*args, **kwargs): hands out a function, calls nothing
FillerEngineGetattrCall(eng, args, kwargs) ==
    IF Len(args) = 1 /\ kwargs = {} THEN Did(eng, <<>>, Returned("function"))
    ELSE Did(eng, <<>>, Raised("TypeError"))

\* self.engine.<attribute>(*args, **kwargs).  Python calls __getattr__ only
\* for a name that normal lookup does not find; an own attribute is a value,
\* and calling it is calling that value.
EngineCall(eng, attribute, args, kwargs) ==
    IF attribute \in OwnAttributes
    THEN Did(eng, <<>>, [how |-> "called", value |-> attribute])
    ELSE IF attribute = "__init__" THEN FillerEngineInitCall(eng, args, kwargs)
    ELSE IF attribute = "__getattr__" THEN FillerEngineGetattrCall(eng, args, kwargs)
    ELSE FillerEngineMethod(eng, attribute, args, kwargs)

\* The names called on self.engine, and the arguments they are called with.
AttributeNames == {"quit", "ponderhit"} \cup OwnAttributes \cup ClassAttributes

Args == {<<>>, <<"a">>, <<"a", "b">>}

Kwargs == {{}, {<<"name", "x">>}, {<<"ponder", "True">>}}

\* self.engine.<attribute>(*args, **kwargs) on a constructed MinimalEngine
CallEngineMethod ==
    \E attribute \in AttributeNames, args \in Args, kwargs \in Kwargs :
        LET did == EngineCall(engine, attribute, args, kwargs)
        IN  /\ engine_name # None
            /\ last = NoCall
            /\ last' = [op |-> "self.engine.method", args |-> <<attribute, args, kwargs>>,
                        board |-> Board(<<>>, <<>>), outcome |-> did.outcome]
            /\ engine' = did.engine
            /\ notified' = notified \o did.calls
            /\ UNCHANGED <<engine_name, protocolVars>>

\* self.notify(method_name, *args, **kwargs) on a constructed MinimalEngine
CallNotify ==
    \E method_name \in AttributeNames, args \in Args, kwargs \in Kwargs :
        LET did == MinimalEngineNotify(engine, method_name, args, kwargs)
        IN  /\ engine_name # None
            /\ last = NoCall
            /\ last' = [op |-> "self.notify", args |-> <<method_name, args, kwargs>>,
                        board |-> Board(<<>>, <<>>), outcome |-> did.outcome]
            /\ engine' = did.engine
            /\ notified' = notified \o <<Notify("self", method_name, args, kwargs)>>
                                     \o did.calls
            /\ UNCHANGED <<engine_name, protocolVars>>

-----------------------------------------------------------------------------
(* chess.engine.BaseCommand: a command object with its two futures.        *)

Pending == [how |-> "pending", value |-> None]

Cancelled == [how |-> "cancelled", value |-> None]

\* options without a "color" key
NoColor == <<"-">>

WHITE == <<"w","h","i","t","e">>

BLACK == <<"b","l","a","c","k">>

INVALID == <<"i","n","v","a","l","i","d">>

EMPTY == <<>>

\* The start handler of the command has not run.
NotStarted == <<"?">>

\* BaseCommand.__init__, with what the command class closes over (options of
\* configure, board of play) and who issued it.  Three fields are kept for
\* the record: what the caller of communicate has seen (call), the stored
\* first move the start handler found (saw) and the lines received (got).
NewCommand(kind, color, board, via) ==
    [kind |-> kind, state |-> "NEW", result |-> Pending, finished |-> FALSE,
     color |-> color, board |-> board, via |-> via,
     call |-> Pending, saw |-> NotStarted, got |-> <<>>]

\* What running a handler of a command leaves behind: the command, the two
\* fields of the protocol, the lines it sent, and the exception that escaped
\* the handler (None when none did).
Effect(cmd, fm, init, lines, escaped) ==
    [cmd |-> cmd, first_move |-> fm, initialized |-> init, lines |-> lines,
     escaped |-> escaped]

\* self.result.set_result(value) on a future that is still pending
set_result(cmd, value) == [cmd EXCEPT !.result = Returned(value)]

\* BaseCommand.set_finished
set_finished(cmd) ==
    [cmd EXCEPT !.result = IF cmd.result.how = "pending"
                           THEN Raised("EngineError: finished before returning result")
                           ELSE cmd.result,
                !.finished = TRUE,
                !.state = "DONE"]

\* BaseCommand._handle_exception, for an EngineError raised by a handler
handle_exception(cmd, error) ==
    [cmd EXCEPT !.result = IF cmd.result.how = "pending" THEN Raised(error)
                           ELSE cmd.result,
                !.finished = TRUE]

\* BaseCommand.check_initialized, which configure and play inherit
check_initialized(init) == init

NotInitialized == "EngineError: tried to run command, but engine is not initialized"

AlreadyInitialized == "EngineError: engine already initialized"

-----------------------------------------------------------------------------
(* The three commands of CO456Protocol.                                    *)

InitializeCommandStartUnchecked(cmd, fm, init) ==
    Effect(set_finished(set_result(cmd, None)), fm, TRUE, <<>>, None)

\* InitializeCommand.check_initialized and InitializeCommand.start
InitializeCommandStart(cmd, fm, init) ==
    IF init THEN Effect(handle_exception(cmd, AlreadyInitialized), fm, init, <<>>, None)
    ELSE Effect(set_finished(set_result(cmd, None)), fm, TRUE, <<>>, None)

ConfigureCommandStartNeverDone(cmd, fm, init) ==
    IF ~check_initialized(init)
    THEN Effect(handle_exception(cmd, NotInitialized), fm, init, <<>>, None)
    ELSE IF cmd.color # NoColor THEN Effect(cmd, fm, init, <<cmd.color>>, None)
    ELSE Effect(cmd, fm, init, <<>>, None)

\* ConfigureCommand.start
ConfigureCommandStart(cmd, fm, init) ==
    IF ~check_initialized(init)
    THEN Effect(handle_exception(cmd, NotInitialized), fm, init, <<>>, None)
    ELSE IF cmd.color # NoColor
    THEN IF cmd.color = BLACK
         THEN Effect(set_finished(set_result(cmd, None)), fm, init, <<cmd.color>>, None)
         ELSE Effect(cmd, fm, init, <<cmd.color>>, None)
    ELSE Effect(cmd, fm, init, <<>>, None)

\* ConfigureCommand.line_received
ConfigureCommandLineReceived(cmd, fm, init, line) ==
    IF cmd.result.how # "pending"
    THEN Effect(cmd, line, init, <<>>, "InvalidStateError")
    ELSE Effect(set_finished(set_result(cmd, None)), line, init, <<>>, None)

PlayCommandStartSendsFirstOfStack(cmd, fm, init) ==
    IF ~check_initialized(init)
    THEN Effect(handle_exception(cmd, NotInitialized), fm, init, <<>>, None)
    ELSE IF fm # EMPTY
    THEN IF from_uci(fm) = BadMove
         THEN Effect(cmd, fm, init, <<>>, "ValueError")
         ELSE Effect(set_finished(set_result(cmd, PlayResult(from_uci(fm), None, FALSE))),
                     EMPTY, init, <<>>, None)
    ELSE IF cmd.board.move_stack # <<>>
    THEN Effect(cmd, fm, init, <<uci(cmd.board.move_stack[1])>>, None)
    ELSE Effect(cmd, fm, init, <<>>, None)

PlayCommandStartKeepsStored(cmd, fm, init) ==
    IF ~check_initialized(init)
    THEN Effect(handle_exception(cmd, NotInitialized), fm, init, <<>>, None)
    ELSE IF fm # EMPTY
    THEN IF from_uci(fm) = BadMove
         THEN Effect(cmd, fm, init, <<>>, "ValueError")
         ELSE Effect(set_finished(set_result(cmd, PlayResult(from_uci(fm), None, FALSE))),
                     fm, init, <<>>, None)
    ELSE IF cmd.board.move_stack # <<>>
    THEN Effect(cmd, fm, init,
                <<uci(cmd.board.move_stack[Len(cmd.board.move_stack)])>>, None)
    ELSE Effect(cmd, fm, init, <<>>, None)

PlayCommandStartAlsoSendsStored(cmd, fm, init) ==
    IF ~check_initialized(init)
    THEN Effect(handle_exception(cmd, NotInitialized), fm, init, <<>>, None)
    ELSE IF fm # EMPTY
    THEN IF from_uci(fm) = BadMove
         THEN Effect(cmd, fm, init, <<>>, "ValueError")
         ELSE Effect(set_finished(set_result(cmd, PlayResult(from_uci(fm), None, FALSE))),
                     EMPTY, init, <<fm>>, None)
    ELSE IF cmd.board.move_stack # <<>>
    THEN Effect(cmd, fm, init,
                <<uci(cmd.board.move_stack[Len(cmd.board.move_stack)])>>, None)
    ELSE Effect(cmd, fm, init, <<>>, None)

\* PlayCommand.start
PlayCommandStart(cmd, fm, init) ==
    IF ~check_initialized(init)
    THEN Effect(handle_exception(cmd, NotInitialized), fm, init, <<>>, None)
    ELSE IF fm # EMPTY
    THEN IF from_uci(fm) = BadMove
         THEN Effect(cmd, fm, init, <<>>, "ValueError")
         ELSE Effect(set_finished(set_result(cmd, PlayResult(from_uci(fm), None, FALSE))),
                     EMPTY, init, <<>>, None)
    ELSE IF cmd.board.move_stack # <<>>
    THEN Effect(cmd, fm, init,
                <<uci(cmd.board.move_stack[Len(cmd.board.move_stack)])>>, None)
    ELSE Effect(cmd, fm, init, <<>>, None)

PlayCommandLineReceivedResignsWithAnyMove(cmd, fm, init, line) ==
    IF line = INVALID
    THEN IF cmd.result.how # "pending"
         THEN Effect(cmd, fm, init, <<>>, "InvalidStateError")
         ELSE Effect(set_finished(set_result(cmd,
                         PlayResult(IF cmd.board.legal_moves = <<>> THEN NullMove
                                    ELSE cmd.board.legal_moves[Len(cmd.board.legal_moves)],
                                    None, TRUE))),
                     fm, init, <<>>, None)
    ELSE IF from_uci(line) = BadMove
         THEN Effect(cmd, fm, init, <<>>, "ValueError")
         ELSE IF cmd.result.how # "pending"
         THEN Effect(cmd, fm, init, <<>>, "InvalidStateError")
         ELSE Effect(set_finished(set_result(cmd,
                         PlayResult(from_uci(line), None, FALSE))),
                     fm, init, <<>>, None)

PlayCommandLineReceivedNeverResigns(cmd, fm, init, line) ==
    IF line = INVALID
    THEN IF cmd.board.legal_moves = <<>>
         THEN Effect(cmd, fm, init, <<>>, "StopIteration")
         ELSE IF cmd.result.how # "pending"
         THEN Effect(cmd, fm, init, <<>>, "InvalidStateError")
         ELSE Effect(set_finished(set_result(cmd,
                         PlayResult(cmd.board.legal_moves[1], None, FALSE))),
                     fm, init, <<>>, None)
    ELSE IF from_uci(line) = BadMove
         THEN Effect(cmd, fm, init, <<>>, "ValueError")
         ELSE IF cmd.result.how # "pending"
         THEN Effect(cmd, fm, init, <<>>, "InvalidStateError")
         ELSE Effect(set_finished(set_result(cmd,
                         PlayResult(from_uci(line), None, FALSE))),
                     fm, init, <<>>, None)

\* PlayCommand.line_received
PlayCommandLineReceived(cmd, fm, init, line) ==
    IF line = INVALID
    THEN IF cmd.board.legal_moves = <<>>
         THEN Effect(cmd, fm, init, <<>>, "StopIteration")
         ELSE IF cmd.result.how # "pending"
         THEN Effect(cmd, fm, init, <<>>, "InvalidStateError")
         ELSE Effect(set_finished(set_result(cmd,
                         PlayResult(cmd.board.legal_moves[1], None, TRUE))),
                     fm, init, <<>>, None)
    ELSE IF from_uci(line) = BadMove
         THEN Effect(cmd, fm, init, <<>>, "ValueError")
         ELSE IF cmd.result.how # "pending"
         THEN Effect(cmd, fm, init, <<>>, "InvalidStateError")
         ELSE Effect(set_finished(set_result(cmd,
                         PlayResult(from_uci(line), None, FALSE))),
                     fm, init, <<>>, None)

-----------------------------------------------------------------------------
(* chess.engine.Protocol: one current command, one waiting command.        *)

NoBoard == Board(<<>>, <<>>)

\* BaseCommand._start: the command becomes ACTIVE and its start handler runs.
\* An EngineError is caught inside the handlers above; any other exception
\* escapes to the caller of communicate and leaves the command ACTIVE.
start(cmd, fm, init) ==
    LET active == [cmd EXCEPT !.state = "ACTIVE", !.saw = fm]
    IN  CASE cmd.kind = "initialize" -> InitializeCommandStart(active, fm, init)
          [] cmd.kind = "configure" -> ConfigureCommandStart(active, fm, init)
          [] cmd.kind = "play" -> PlayCommandStart(active, fm, init)

\* BaseCommand._line_received
line_received(cmd, fm, init, line) ==
    LET got == [cmd EXCEPT !.got = Append(@, line)]
    IN  CASE cmd.kind = "configure" -> ConfigureCommandLineReceived(got, fm, init, line)
          [] cmd.kind = "play" -> PlayCommandLineReceived(got, fm, init, line)
          [] OTHER -> Effect(got, fm, init, <<>>, None)

\* What the caller of communicate sees once a handler has run: the escaped
\* exception, else the result future once it is done, else nothing yet.
Seen(call, eff) ==
    IF call.how # "pending" THEN call
    ELSE IF eff.escaped # None THEN Raised(eff.escaped)
    ELSE IF eff.cmd.result.how \in {"returned", "raised"} THEN eff.cmd.result
    ELSE call

\* Protocol.send_line for each line a handler sent, by command i
Sent(lines, i) == [k \in 1..Len(lines) |-> [line |-> lines[k], by |-> i]]

QueueNever == FALSE

\* The branch of Protocol.communicate taken when a command is already current.
QueueBehindCurrent == command # 0

\* The caller is inside a call that has not returned or raised.
Blocked == client.cmd # 0 /\ cmds[client.cmd].call.how = "pending"

\* Protocol.communicate(command_factory), as awaited by one caller.
communicate(op, arg, new) ==
    LET i == Len(cmds) + 1
    IN  /\ ~Blocked
        /\ Len(cmds) < MaxCommands
        /\ client' = [op |-> op, arg |-> arg, cmd |-> i, outcome |-> Pending]
        /\ IF QueueBehindCurrent
           THEN \* the current command is cancelled and the new one waits
                /\ cmds' = Append(
                       [cmds EXCEPT ![command] =
                           IF @.result.how = "pending" /\ @.state = "ACTIVE"
                           THEN [@ EXCEPT !.result = Cancelled, !.state = "CANCELLING"]
                           ELSE @],
                       new)
                /\ next_command' = i
                /\ UNCHANGED <<command, first_move, initialized, written>>
           ELSE \* previous_command_finished(None): the new command starts now
                LET eff == start(new, first_move, initialized)
                    cmd == [eff.cmd EXCEPT !.call = Seen(new.call, eff)]
                IN  /\ cmds' = Append(cmds, cmd)
                    /\ command' = IF cmd.finished THEN 0 ELSE i
                    /\ next_command' = 0
                    /\ first_move' = eff.first_move
                    /\ initialized' = eff.initialized
                    /\ written' = written \o Sent(eff.lines, i)
        /\ UNCHANGED <<pipe, sent_by_child, replies, caller, strategyVars>>

-----------------------------------------------------------------------------
(* The calls on CO456Protocol and on CO456Engine.                          *)

\* The "color" of the options handed to configure directly.
Colors == {NoColor, WHITE, BLACK}

\* The boards handed to play and to search.
PlayBoards ==
    { Board(<<>>, <<from_uci(<<"e","2","e","4">>), from_uci(<<"g","1","f","3">>)>>),
      Board(<<from_uci(<<"e","2","e","4">>)>>,
            <<from_uci(<<"a","2","a","3">>), from_uci(<<"e","1","g","1">>)>>),
      Board(<<from_uci(<<"e","2","e","4">>), from_uci(<<"a","7","a","8","q">>)>>, <<>>) }

\* CO456Protocol.initialize
Initialize ==
    /\ caller = "direct"
    /\ communicate("initialize", "-", NewCommand("initialize", NoColor, NoBoard, "protocol"))

\* CO456Protocol.configure(options).  The callers of the adapter get it from
\* SimpleEngine.popen, which initializes it before anything else is called.
Configure ==
    \E color \in Colors :
        /\ caller = "direct"
        /\ initialized
        /\ communicate("configure", "-",
               NewCommand("configure", color, NoBoard, "protocol"))

\* CO456Protocol.play(board, limit)
Play ==
    \E board \in PlayBoards :
        /\ caller = "direct"
        /\ initialized
        /\ communicate("play", "-", NewCommand("play", NoColor, board, "protocol"))

\* CO456Engine.get_opponent_info: the message it configures
OpponentInfoColor(is_white) == IF is_white THEN WHITE ELSE BLACK

\* CO456Engine.get_opponent_info(game)
GetOpponentInfo ==
    \E is_white \in BOOLEAN :
        /\ caller = "CO456Engine"
        /\ communicate("get_opponent_info",
               IF is_white THEN "game.is_white" ELSE "not game.is_white",
               NewCommand("configure", OpponentInfoColor(is_white), NoBoard, "engine"))

\* CO456Engine.search(board, time_limit, ponder, draw_offered)
Search ==
    \E board \in PlayBoards :
        /\ caller = "CO456Engine"
        /\ communicate("search", "-", NewCommand("play", NoColor, board, "engine"))

\* The bodies of CO456Protocol.ping, analysis and quit
ProtocolPing == Returned(None)

ProtocolAnalysis == Returned(None)

ProtocolQuit == Returned(None)

\* A call that runs no command
Plain(op, outcome) ==
    /\ ~Blocked
    /\ client' = [op |-> op, arg |-> "-", cmd |-> 0, outcome |-> outcome]
    /\ UNCHANGED <<initialized, first_move, cmds, command, next_command, written,
                   pipe, sent_by_child, replies, caller, strategyVars>>

Ping == Plain("ping", ProtocolPing)

Analysis == Plain("analysis", ProtocolAnalysis)

Quit == Plain("quit", ProtocolQuit)

-----------------------------------------------------------------------------
(* The child process.                                                      *)

\* What the child may write: moves, "invalid", an empty line, other text.
ChildLines ==
    { <<"a","7","a","8","q">>, INVALID, EMPTY, <<"o","k">> }

\* The child writes a line to its standard output.
ChildWrites ==
    \E line \in ChildLines :
        /\ sent_by_child < MaxChildLines
        /\ sent_by_child' = sent_by_child + 1
        /\ pipe' = Append(pipe, line)
        /\ replies' = Append(replies, [line |-> line, to |-> 0])
        /\ UNCHANGED <<initialized, first_move, cmds, command, next_command, written,
                       caller, client, strategyVars>>

\* What a child that keeps to the protocol replies: a move or "invalid".
ReplyLines == { <<"a","7","a","8","q">>, <<"g","1","f","3">>, INVALID }

\* The indices in `written` of the lines such a child answers: "white" and
\* every move line, not "black".
Requests ==
    SelectSeq([k \in 1..Len(written) |-> k], LAMBDA k : written[k].line # BLACK)

\* The child answers, with one line, the oldest line it has not answered yet.
ChildReplies ==
    \E line \in ReplyLines :
        /\ sent_by_child < Len(Requests)
        /\ sent_by_child' = sent_by_child + 1
        /\ pipe' = Append(pipe, line)
        /\ replies' = Append(replies, [line |-> line, to |-> Requests[sent_by_child + 1]])
        /\ UNCHANGED <<initialized, first_move, cmds, command, next_command, written,
                       caller, client, strategyVars>>

\* Protocol._line_received: the next line goes to the current command, if any.
\* A command that finishes gives way to the waiting one, which starts.
LineReceived ==
    /\ pipe # <<>>
    /\ pipe' = Tail(pipe)
    /\ IF command = 0
       THEN UNCHANGED <<initialized, first_move, cmds, command, next_command, written>>
       ELSE LET eff == line_received(cmds[command], first_move, initialized, Head(pipe))
                cmd == [eff.cmd EXCEPT !.call = Seen(cmds[command].call,
                                                     [eff EXCEPT !.escaped = None])]
                after == [cmds EXCEPT ![command] = cmd]
            IN  IF cmd.finished /\ next_command # 0
                THEN LET nxt == start(after[next_command], eff.first_move, eff.initialized)
                         ncmd == [nxt.cmd EXCEPT !.call = Seen(after[next_command].call, nxt)]
                     IN  /\ cmds' = [after EXCEPT ![next_command] = ncmd]
                         /\ command' = IF ncmd.finished THEN 0 ELSE next_command
                         /\ next_command' = 0
                         /\ first_move' = nxt.first_move
                         /\ initialized' = nxt.initialized
                         /\ written' = written \o Sent(eff.lines \o nxt.lines, next_command)
                ELSE /\ cmds' = after
                     /\ command' = IF cmd.finished THEN 0 ELSE command
                     /\ UNCHANGED next_command
                     /\ first_move' = eff.first_move
                     /\ initialized' = eff.initialized
                     /\ written' = written \o Sent(eff.lines, command)
    /\ UNCHANGED <<sent_by_child, replies, caller, client, strategyVars>>

-----------------------------------------------------------------------------
(* Specifications.                                                         *)

\* The adapter as CO456Protocol.__init__ leaves it, for a caller that drives
\* the protocol directly, or as CO456Engine.__init__ leaves it:
\* SimpleEngine.popen has run initialize on it.
Init ==
    /\ caller \in {"CO456Engine", "direct"}
    /\ initialized = (caller = "CO456Engine")
    /\ first_move = EMPTY
    /\ cmds = <<>>
    /\ command = 0
    /\ next_command = 0
    /\ written = <<>>
    /\ pipe = <<>>
    /\ sent_by_child = 0
    /\ replies = <<>>
    /\ client = [op |-> "none", arg |-> "-", cmd |-> 0, outcome |-> Pending]
    /\ last = NoCall
    /\ engine_name = None
    /\ engine = NoEngine
    /\ notified = <<>>

Next ==
    \/ Initialize
    \/ Configure
    \/ Play
    \/ GetOpponentInfo
    \/ Search
    \/ Ping
    \/ Analysis
    \/ Quit
    \/ ChildWrites
    \/ LineReceived

\* The adapter, its caller and the child.
Spec == Init /\ [][Next]_vars

NextReplies ==
    \/ Initialize
    \/ Configure
    \/ Play
    \/ GetOpponentInfo
    \/ Search
    \/ ChildReplies
    \/ LineReceived

\* The adapter and its caller, with a child that writes one line in reply to
\* "white" and to each move line, and nothing otherwise.
SpecReplies == Init /\ [][NextReplies]_vars

NextStrategies ==
    \/ ConstructMinimalEngine
    \/ CallAlphabetical
    \/ CallFirstMove
    \/ CallMinimalEngineSearch
    \/ CallEngineMethod
    \/ CallNotify

\* The move pickers and the FillerEngine proxy of a MinimalEngine.
SpecStrategies == Init /\ [][NextStrategies]_vars

-----------------------------------------------------------------------------
(* Properties of the move pickers, checked under SpecStrategies.           *)

IsLegal(board, move) == \E i \in 1..Len(board.legal_moves) : board.legal_moves[i] = move

\* C7: on a board with at least one legal move, Alphabetical.search returns a
\* PlayResult whose move is legal and whose algebraic notation is, in string
\* order, the smallest among the notations of all legal moves.
C7_AlphabeticalSmallestSan ==
    (last.op = "Alphabetical.search" /\ last.board.legal_moves # <<>>) =>
        /\ last.outcome.how = "returned"
        /\ IsLegal(last.board, last.outcome.value.move)
        /\ \A i \in 1..Len(last.board.legal_moves) :
               /\ StrLessEq(san(last.board, last.outcome.value.move),
                            san(last.board, last.board.legal_moves[i]))
               /\ (last.board.legal_moves[i] # last.outcome.value.move =>
                       StrLess(san(last.board, last.outcome.value.move),
                               san(last.board, last.board.legal_moves[i])))

\* Alphabetical.search has picked, among three legal moves, one that is neither
\* listed first nor first by UCI text, ahead of a notation it is a prefix of.
C7_Witness ==
    /\ last.op = "Alphabetical.search"
    /\ Len(last.board.legal_moves) = 3
    /\ last.outcome.how = "returned"
    /\ last.outcome.value.move # last.board.legal_moves[1]
    /\ last.outcome.value.move # FirstMoveSearch(last.board).value.move
    /\ san(last.board, last.outcome.value.move) = <<"O","-","O">>
    /\ IsLegal(last.board, from_uci(<<"e","1","c","1">>))

\* C8: on a board with at least one legal move, FirstMove.search returns a
\* PlayResult whose move is legal and whose UCI text is, in string order, the
\* smallest among the UCI texts of all legal moves.
C8_FirstMoveSmallestUci ==
    (last.op = "FirstMove.search" /\ last.board.legal_moves # <<>>) =>
        /\ last.outcome.how = "returned"
        /\ IsLegal(last.board, last.outcome.value.move)
        /\ \A i \in 1..Len(last.board.legal_moves) :
               /\ StrLessEq(uci(last.outcome.value.move), uci(last.board.legal_moves[i]))
               /\ (last.board.legal_moves[i] # last.outcome.value.move =>
                       StrLess(uci(last.outcome.value.move),
                               uci(last.board.legal_moves[i])))

\* FirstMove.search has picked, among three legal moves, one that is neither
\* listed first nor first by algebraic notation.
C8_Witness ==
    /\ last.op = "FirstMove.search"
    /\ Len(last.board.legal_moves) = 3
    /\ last.outcome.how = "returned"
    /\ last.outcome.value.move # last.board.legal_moves[1]
    /\ last.outcome.value.move # AlphabeticalSearch(last.board).value.move
    /\ uci(last.outcome.value.move) = <<"a","2","a","3">>

\* C10: MinimalEngine.search raises NotImplementedError whatever the board,
\* time limit, ponder and draw_offered are, returns no PlayResult, and leaves
\* the engine (and everything else) as it was.
C10_MinimalSearchRaises ==
    [][(last'.op = "MinimalEngine.search" /\ last.op # "MinimalEngine.search") =>
           /\ last'.outcome.how = "raised"
           /\ last'.outcome.value = "NotImplementedError"
           /\ engine_name' = engine_name
           /\ UNCHANGED protocolVars]_vars

\* MinimalEngine.search has been called on a board with legal moves, with a
\* draw offered and pondering on.
C10_Witness ==
    /\ last.op = "MinimalEngine.search"
    /\ last.board.legal_moves # <<>>
    /\ last.args = <<"movetime", TRUE, TRUE>>
    /\ last.outcome.how = "raised"
    /\ engine_name = "homemade"

\* A step that calls self.engine.<method_name>(*args, **kwargs) with a name
\* outside `found` does what self.notify(method_name, *args, **kwargs) does:
\* notify is invoked once, on the MinimalEngine, with that name and those
\* arguments, its result is the result of the call, and with the default
\* notify that result is None and nothing else changes.
C11_Forwards(found) ==
    (last.op = "none" /\ last'.op = "self.engine.method" /\ last'.args[1] \notin found) =>
        LET method_name == last'.args[1]
            args == last'.args[2]
            kwargs == last'.args[3]
            direct == MinimalEngineNotify(engine, method_name, args, kwargs)
        IN  /\ notified' = notified \o <<Notify("self", method_name, args, kwargs)>>
                                     \o direct.calls
            /\ last'.outcome = direct.outcome
            /\ engine' = direct.engine
            /\ last'.outcome = Returned(None)
            /\ engine' = engine
            /\ engine_name' = engine_name
            /\ UNCHANGED protocolVars

-----------------------------------------------------------------------------
(* Properties of the adapter, checked under Spec.                          *)

\* The text of the lines command i has written, in order.
LinesWrittenBy(i) ==
    LET mine == SelectSeq(written, LAMBDA w : w.by = i)
    IN  [k \in 1..Len(mine) |-> mine[k].line]

LastMoveText(board) == uci(board.move_stack[Len(board.move_stack)])

\* A play command whose start handler found no stored first move and a board
\* with a move on its stack.
PlayFromBoard(i) ==
    /\ cmds[i].kind = "play"
    /\ cmds[i].saw = EMPTY
    /\ cmds[i].board.move_stack # <<>>

\* A line PlayCommand.line_received can turn into a result: a UCI move, or
\* "invalid" while the board has a legal move to carry.
Usable(board, line) ==
    IF line = INVALID THEN board.legal_moves # <<>> ELSE from_uci(line) # BadMove

\* The positions of the usable lines among those command i has received.
UsableGot(i) == {k \in 1..Len(cmds[i].got) : Usable(cmds[i].board, cmds[i].got[k])}

\* C1 as stated: a play that starts with no stored first move and a non-empty
\* move stack writes exactly the UCI text of the last move, stays pending until
\* a line is received, and completes on the first line received.
C1_CompletesOnFirstLine ==
    \A i \in DOMAIN cmds :
        PlayFromBoard(i) =>
            /\ LinesWrittenBy(i) = <<LastMoveText(cmds[i].board)>>
            /\ (cmds[i].got = <<>> => cmds[i].call.how = "pending" /\ ~cmds[i].finished)
            /\ (cmds[i].got # <<>> =>
                    /\ Len(cmds[i].got) = 1
                    /\ cmds[i].call.how # "pending"
                    /\ cmds[i].finished)

\* C1, amended: such a play writes exactly the UCI text of the last move and
\* nothing more; it stays pending while no usable line has been received (a
\* line that is neither a UCI move nor "invalid", or "invalid" on a board
\* without legal moves, is consumed and leaves it pending) and it completes,
\* returning a result, on the first usable line.
C1_CompletesOnFirstUsableLine ==
    \A i \in DOMAIN cmds :
        PlayFromBoard(i) =>
            /\ LinesWrittenBy(i) = <<LastMoveText(cmds[i].board)>>
            /\ IF UsableGot(i) = {}
               THEN cmds[i].call.how = "pending" /\ ~cmds[i].finished
               ELSE /\ UsableGot(i) = {Len(cmds[i].got)}
                    /\ cmds[i].call.how = "returned"
                    /\ cmds[i].finished

\* A play from a board with two moves on its stack has received an unusable
\* line, then a move, and has returned that move.
C1_Witness ==
    \E i \in DOMAIN cmds :
        /\ PlayFromBoard(i)
        /\ Len(cmds[i].board.move_stack) = 2
        /\ Len(cmds[i].got) = 2
        /\ cmds[i].call.how = "returned"
        /\ cmds[i].call.value.resigned = FALSE
        /\ cmds[i].call.value.move = from_uci(cmds[i].got[2])

\* C2 as stated: whatever line a pending play command receives, it is finished
\* after that one line, with resigned = true for "invalid" and otherwise with
\* resigned = false and the move parsed from the line.
C2_EveryLineFinishes ==
    \A i \in DOMAIN cmds :
        (cmds[i].kind = "play" /\ cmds[i].got # <<>> /\ cmds[i].result.how # "cancelled") =>
            /\ Len(cmds[i].got) = 1
            /\ cmds[i].finished
            /\ cmds[i].result.how = "returned"
            /\ (cmds[i].got[1] = INVALID => cmds[i].result.value.resigned = TRUE)
            /\ (cmds[i].got[1] # INVALID =>
                    /\ cmds[i].result.value.resigned = FALSE
                    /\ cmds[i].result.value.move = from_uci(cmds[i].got[1]))

\* C2, amended: a pending play command that receives "invalid" while its board
\* has a legal move gets a result with resigned = true; one that receives a
\* line that parses as a UCI move gets resigned = false and that move; in both
\* cases it is finished after that single line.  Any other line ("invalid" on
\* a board without legal moves, text that is not a UCI move) leaves the
\* command unfinished with no result.
C2_UsableLineFinishes ==
    \A i \in DOMAIN cmds :
        (cmds[i].kind = "play" /\ cmds[i].got # <<>> /\ cmds[i].result.how # "cancelled") =>
            LET n == Len(cmds[i].got)
                line == cmds[i].got[n]
            IN  /\ \A k \in 1..(n - 1) : ~Usable(cmds[i].board, cmds[i].got[k])
                /\ IF Usable(cmds[i].board, line)
                   THEN /\ cmds[i].finished
                        /\ cmds[i].state = "DONE"
                        /\ cmds[i].result.how = "returned"
                        /\ cmds[i].result.value.resigned = (line = INVALID)
                        /\ (line # INVALID =>
                                cmds[i].result.value.move = from_uci(line))
                   ELSE /\ ~cmds[i].finished
                        /\ cmds[i].result.how = "pending"

\* A play command has received a line that is no move and then "invalid", and
\* has a resigned result.
C2_Witness ==
    \E i \in DOMAIN cmds :
        /\ cmds[i].kind = "play"
        /\ cmds[i].got = << <<"o","k">>, INVALID >>
        /\ cmds[i].result.how = "returned"
        /\ cmds[i].result.value.resigned = TRUE
        /\ cmds[i].finished

\* C3 as stated: a reply of the child that was stored as the first move is
\* treated like any other reply by the play that returns it: "invalid" gives
\* a resigned result (not a failed play), a UCI move gives that move.
C3_StoredReplyIsMoveOrResignation ==
    \A i \in DOMAIN cmds :
        (cmds[i].kind = "play" /\ cmds[i].saw # NotStarted /\ cmds[i].saw # EMPTY) =>
            /\ (cmds[i].saw = INVALID =>
                    /\ cmds[i].call.how = "returned"
                    /\ cmds[i].call.value.resigned = TRUE)
            /\ ((cmds[i].saw # INVALID /\ from_uci(cmds[i].saw) # BadMove) =>
                    /\ cmds[i].call.how = "returned"
                    /\ cmds[i].call.value.resigned = FALSE
                    /\ cmds[i].call.value.move = from_uci(cmds[i].saw))

\* A request that has been started and has not finished.
Outstanding(i) == cmds[i].state \in {"ACTIVE", "CANCELLING"} /\ ~cmds[i].finished

StartsNow(i) ==
    /\ cmds'[i].saw # NotStarted
    /\ (i \in DOMAIN cmds => cmds[i].saw = NotStarted)

\* Command i finishes in this step, having been unfinished before it.
FinishesNow(i) == i \in DOMAIN cmds /\ ~cmds[i].finished /\ cmds'[i].finished

C5_Step ==
    /\ (client'.op = "get_opponent_info" /\ client' # client) =>
           /\ Len(cmds') = Len(cmds) + 1
           /\ client'.cmd = Len(cmds')
           /\ cmds'[Len(cmds')].kind = "configure"
           /\ cmds'[Len(cmds')].color =
                  IF client'.arg = "game.is_white" THEN WHITE ELSE BLACK
    /\ \A i \in DOMAIN cmds' :
           (cmds'[i].kind = "configure" /\ StartsNow(i)) =>
               /\ (cmds'[i].color = BLACK =>
                       /\ written' = Append(written, [line |-> BLACK, by |-> i])
                       /\ cmds'[i].finished
                       /\ cmds'[i].call.how = "returned"
                       /\ cmds'[i].got = <<>>
                       /\ pipe' = pipe
                       /\ first_move' = first_move)
               /\ (cmds'[i].color = WHITE =>
                       /\ written' = Append(written, [line |-> WHITE, by |-> i])
                       /\ ~cmds'[i].finished
                       /\ cmds'[i].call.how = "pending"
                       /\ first_move' = first_move)
    /\ \A i \in DOMAIN cmds' :
           (cmds'[i].kind = "configure" /\ cmds'[i].color = WHITE
                /\ cmds'[i].saw # NotStarted) =>
               /\ cmds'[i].finished = (cmds'[i].got # <<>>)
               /\ LinesWrittenBy(i)' = <<WHITE>>
               /\ (FinishesNow(i) =>
                       /\ pipe # <<>>
                       /\ pipe' = Tail(pipe)
                       /\ cmds'[i].got = <<Head(pipe)>>
                       /\ first_move' = Head(pipe)
                       /\ cmds'[i].call.how = "returned")

C6_Lines ==
    \A k \in DOMAIN written :
        LET line == written[k].line
            cmd == cmds[written[k].by]
        IN  \/ /\ cmd.kind = "configure"
               /\ cmd.color # NoColor
               /\ line = cmd.color
               /\ (cmd.via = "engine" => line \in {WHITE, BLACK})
            \/ /\ cmd.kind = "play"
               /\ cmd.saw = EMPTY
               /\ cmd.board.move_stack # <<>>
               /\ line = LastMoveText(cmd.board)

C6_Step ==
    /\ C6_Lines'
    /\ (client' # client /\ client'.op \in {"initialize", "ping", "analysis", "quit"}) =>
           written' = written
    /\ \A i \in DOMAIN cmds' :
           (cmds'[i].kind = "play" /\ StartsNow(i) /\ cmds'[i].finished) =>
               written' = written

\* C6: every line written to the child is the color of a configure ("white" or
\* "black" when the configure comes from get_opponent_info) or the UCI text of
\* the last move on the stack of the board passed to the play that wrote it;
\* initialize, ping, analysis, quit and a play that returns the stored first
\* move write nothing.
C6_OnlyColorsAndLastMoves == [][C6_Step]_vars

\* The engine has written "white", a search has returned the stored first move
\* without writing, and a later search has written its board's last move.
C6_Witness ==
    /\ Len(written) = 2
    /\ written[1].line = WHITE
    /\ written[2].line = <<"a","7","a","8","q">>
    /\ \E i \in DOMAIN cmds :
           /\ cmds[i].kind = "play"
           /\ cmds[i].saw = <<"a","7","a","8","q">>
           /\ cmds[i].finished
           /\ LinesWrittenBy(i) = <<>>

\* An initialize is issued in this step.
InitializeIssued ==
    /\ Len(cmds') = Len(cmds) + 1
    /\ cmds'[Len(cmds')].kind = "initialize"

C12_Step ==
    /\ (initialized => initialized')
    /\ InitializeIssued =>
           LET cmd == cmds'[Len(cmds')]
           IN  /\ written' = written
               /\ pipe' = pipe
               /\ sent_by_child' = sent_by_child
               /\ first_move' = first_move
               /\ IF ~initialized
                  THEN /\ initialized'
                       /\ cmd.finished
                       /\ cmd.call = Returned(None)
                  ELSE /\ initialized' = initialized
                       /\ cmd.call \in {Pending, Raised(AlreadyInitialized)}
                       /\ (command = 0 =>
                               cmd.finished /\ cmd.call = Raised(AlreadyInitialized))
    /\ \A i \in DOMAIN cmds' :
           cmds'[i].kind = "initialize" =>
               /\ cmds'[i].got = <<>>
               /\ LinesWrittenBy(i)' = <<>>
               /\ (i \in DOMAIN cmds => cmds'[i].call = cmds[i].call)

ReceivesNow(i) == i \in DOMAIN cmds /\ Len(cmds'[i].got) = Len(cmds[i].got) + 1

\* A play that has returned the stored first move: a result without a line.
ReturnedStored(i) ==
    cmds[i].kind = "play" /\ cmds[i].call.how = "returned" /\ cmds[i].got = <<>>

C13_Step ==
    /\ (cmds = <<>> => first_move = EMPTY)
    /\ (first_move' # first_move /\ first_move' # EMPTY) =>
           \E i \in DOMAIN cmds :
               /\ cmds[i].kind = "configure"
               /\ ReceivesNow(i)
               /\ first_move' = cmds'[i].got[Len(cmds'[i].got)]
    /\ \A i \in DOMAIN cmds' :
           (cmds'[i].kind = "play" /\ StartsNow(i)) =>
               IF first_move # EMPTY
               THEN /\ cmds'[i].call.how = "returned"
                    /\ cmds'[i].call.value.move = from_uci(first_move)
                    /\ cmds'[i].finished
                    /\ first_move' = EMPTY
                    /\ written' = written
                    /\ pipe' = pipe
               ELSE /\ cmds'[i].call.how = "pending"
                    /\ ~cmds'[i].finished
                    /\ first_move' = EMPTY
    /\ \A i, j \in DOMAIN cmds' :
           (i < j /\ ReturnedStored(i)' /\ ReturnedStored(j)') =>
               \E k \in (i + 1)..(j - 1) :
                   cmds'[k].kind = "configure" /\ cmds'[k].got # <<>>

\* C13 as stated: the stored first move is empty initially and becomes
\* non-empty only when a configure command receives a line; the first play
\* started afterwards returns it as its move, without writing to or reading
\* from the child, and resets it to empty; a play that starts with it empty
\* waits for the child, and no two plays return the same stored first move.
C13_ConsumedOnce == [][C13_Step]_vars

\* C14 as stated, in the form a finite run refutes: with a child that writes
\* one line in reply to "white" and to each move line and nothing otherwise,
\* every configure and every play call finishes in the end -- so a call that
\* has not finished always has a line still to come to it: one in the pipe,
\* or one the child has yet to write.  (Only a line of the child finishes a
\* command that did not finish when it started.)
C14_EveryCallCanFinish ==
    \A i \in DOMAIN cmds :
        (cmds[i].kind \in {"configure", "play"} /\ cmds[i].call.how = "pending") =>
            \/ pipe # <<>>
            \/ sent_by_child < Len(Requests)

\* The use C15 is about: CO456Engine calls get_opponent_info once, first, and
\* search from then on.
EngineUse(cs) ==
    /\ caller = "CO456Engine"
    /\ cs # <<>>
    /\ cs[1].kind = "configure"
    /\ \A i \in 2..Len(cs) : cs[i].kind = "play"

\* The search of command i returns a result in this step.
ReturnsNow(i) ==
    /\ cmds'[i].kind = "play"
    /\ cmds'[i].call.how = "returned"
    /\ (i \in DOMAIN cmds => cmds[i].call.how = "pending")

\* The reply of the child that is delivered in this step, when one is.
Delivered == replies[Len(replies) - Len(pipe) + 1]

C15_Step ==
    EngineUse(cmds') =>
        /\ \A i \in DOMAIN cmds :
               ReceivesNow(i) =>
                   /\ Delivered.to = Len(written)
                   /\ written[Delivered.to].by = i
                   /\ cmds'[i].got = <<Delivered.line>>
                   /\ (cmds[i].kind = "configure" =>
                           written[Delivered.to].line = WHITE /\ first_move' = Delivered.line)
                   /\ (ReturnsNow(i) =>
                           /\ written[Delivered.to].line = LastMoveText(cmds[i].board)
                           /\ IF Delivered.line = INVALID
                              THEN cmds'[i].call.value.resigned = TRUE
                              ELSE /\ cmds'[i].call.value.resigned = FALSE
                                   /\ cmds'[i].call.value.move = from_uci(Delivered.line))
        /\ \A i \in DOMAIN cmds' :
               ReturnsNow(i) =>
                   \/ ReceivesNow(i)
                   \/ /\ StartsNow(i)
                      /\ i = 2
                      /\ cmds[1].color = WHITE
                      /\ written = <<[line |-> WHITE, by |-> 1]>>
                      /\ replies = <<[line |-> first_move, to |-> 1]>>
                      /\ cmds'[i].call.value.move = from_uci(first_move)
                      /\ cmds'[i].call.value.resigned = FALSE
                      /\ written' = written
                      /\ first_move' = EMPTY

\* C15: when CO456Engine calls get_opponent_info once and then search, and the
\* child writes one line in reply to "white" and to each move line and nothing
\* in reply to "black", every line the adapter receives is the child's reply
\* to the most recent line written, and goes to the command that wrote that
\* line.  A search that returns a result returns the reply to the move line it
\* wrote itself -- that move, or a resignation for "invalid" -- except the
\* first search of White, which returns the reply to "white" that configure
\* stored; that reply is returned by no later search.
C15_RepliesAligned == [][C15_Step]_vars

\* As White, the first search has returned the child's reply to "white" and
\* the second search the child's different reply to the move it wrote.
C15_Witness ==
    /\ EngineUse(cmds)
    /\ Len(cmds) = 3
    /\ cmds[1].color = WHITE
    /\ Len(replies) = 2
    /\ replies[1].line # replies[2].line
    /\ cmds[2].call.how = "returned"
    /\ cmds[2].call.value.move = from_uci(replies[1].line)
    /\ LinesWrittenBy(2) = <<>>
    /\ cmds[3].call.how = "returned"
    /\ cmds[3].call.value.move = from_uci(replies[2].line)
    /\ written[replies[2].to].by = 3

\* A play that started without a stored first move and whose latest line from
\* the child is "invalid".
ToldInvalid(i) ==
    /\ cmds[i].kind = "play"
    /\ cmds[i].saw = EMPTY
    /\ cmds[i].got # <<>>
    /\ cmds[i].got[Len(cmds[i].got)] = INVALID

\* A play that has returned a resigned result was told "invalid", and the move
\* of the result is the first legal move of its board.
ResignedCarriesFirstLegal ==
    \A i \in DOMAIN cmds :
        (cmds[i].kind = "play" /\ cmds[i].call.how = "returned"
             /\ cmds[i].call.value.resigned) =>
            /\ ToldInvalid(i)
            /\ cmds[i].board.legal_moves # <<>>
            /\ cmds[i].call.value.move = cmds[i].board.legal_moves[1]
            /\ IsLegal(cmds[i].board, cmds[i].call.value.move)

\* C16 as stated: a resigned result carries the first legal move of the board
\* passed to play, and on a board without a legal move the play told
\* "invalid" fails instead of returning a result.
C16_ResignsOrFails ==
    /\ ResignedCarriesFirstLegal
    /\ \A i \in DOMAIN cmds :
           (ToldInvalid(i) /\ cmds[i].board.legal_moves = <<>>) =>
               cmds[i].call.how = "raised"

\* C16, amended: whenever play returns a result with resigned = true (the
\* child replied "invalid"), the move of that result is a legal move of the
\* board passed to play, the first in its iteration order; if that board has
\* no legal move, play returns no result and does not fail either: the line is
\* consumed and the play stays pending, its command unfinished.
C16_ResignsOrStaysPending ==
    /\ ResignedCarriesFirstLegal
    /\ \A i \in DOMAIN cmds :
           (ToldInvalid(i) /\ cmds[i].board.legal_moves = <<>>) =>
               /\ cmds[i].call.how = "pending"
               /\ cmds[i].result.how = "pending"
               /\ ~cmds[i].finished

\* One search has been told "invalid" and has resigned with the first of its
\* board's two legal moves; a later one, on a board without legal moves, has
\* been told "invalid" and is still pending.
C16_Witness ==
    \E i, j \in DOMAIN cmds :
        /\ i < j
        /\ ToldInvalid(i)
        /\ Len(cmds[i].board.legal_moves) = 2
        /\ cmds[i].call = Returned(PlayResult(cmds[i].board.legal_moves[1], None, TRUE))
        /\ ToldInvalid(j)
        /\ cmds[j].board.legal_moves = <<>>
        /\ cmds[j].call.how = "pending"

\* C9 as stated: ping, analysis and quit, which the adapter does not
\* implement, raise "not implemented" when called.
C9_UnimplementedRaise ==
    client.op \in {"ping", "analysis", "quit"} =>
        /\ client.outcome.how = "raised"
        /\ client.outcome.value = "NotImplementedError"

=============================================================================
